---- MODULE Spec2Model ----
(***************************************************************************)
(* A model of the footage workflow of waldo: the tRPC gameplay router of   *)
(* apps/web (Prisma store) and the footage controller of apps/backend      *)
(* (Mongoose store).  The two applications are separate programs with      *)
(* separate stores; a run is a run of one of them (variable app).          *)
(***************************************************************************)
EXTENDS Integers, Sequences, FiniteSets, Bags, TLC

\* ------------------------------------------------------------------ bounds
\* Gameplay rows ever created by the web application in one run.
MaxIds == 2
\* Vote rows in the store.
MaxVotes == 2
\* Local .mp4 files written in one run.
MaxFiles == 2
\* Create requests between their existence check and their write.
MaxPending == 2
\* Users blacklisted at the same time.
MaxBlacklisted == 1

\* ------------------------------------------------------- users and sessions
\* Session users; 0 is a request without a session.
Users == {1, 2, 3}
Anonymous == 0
\* A syntactically valid user id without a user row.
GhostUser == 9

Role(u) == CASE u = 1 -> "USER" [] u = 2 -> "MOD" [] OTHER -> "ADMIN"

Urls == {1, 2}

GameplayTypes == {"VAL", "CSG", "TF2", "APE", "COD", "R6S"}

RoleLevel(r) == CASE r = "USER" -> 0 [] r = "MOD" -> 1 [] OTHER -> 2

\* @server/utils/hasPerms (spec section 4.1).
hasPerms(userId, userRole, itemOwnerId, requiredPerms, isBlacklisted) ==
    IF isBlacklisted THEN FALSE
    ELSE CASE requiredPerms = "isOwner" ->
                  userId = itemOwnerId \/ RoleLevel(userRole) >= 1
           [] requiredPerms = "roleMod" -> RoleLevel(userRole) >= 1
           [] OTHER -> RoleLevel(userRole) >= 2

VARIABLES
    app,          \* "web" | "backend": the application this run is of
    gameplay,     \* web: the gameplay table, a sequence of rows in store order
    nextId,       \* web: the next fresh gameplay id
    votes,        \* web: the gameplayVotes table, a bag of rows
    blacklisted,  \* web: users whose user row has blacklisted = true
    pending,      \* web: create requests past their existence check, a bag
    files,        \* local .mp4 files, in creation order
    footage,      \* backend: the Footage collection, a set of documents
    clips,        \* the clip records, a set
    bpending,     \* backend: createFootage requests in flight, a bag
    resp          \* the response being delivered, or NoResp

webVars == <<gameplay, nextId, votes, blacklisted, pending>>

backendVars == <<footage, bpending>>

vars == <<app, webVars, backendVars, clips, files, resp>>

NoResp ==
    [proc |-> "none", caller |-> 0, blacklisted |-> FALSE, code |-> "",
     msg |-> "", id |-> 0, out |-> <<>>]

\* A response, with the blacklisted flag of the request's session.
Reply(proc, caller, code, msg, id, out) ==
    [proc |-> proc, caller |-> caller, blacklisted |-> caller \in blacklisted,
     code |-> code, msg |-> msg, id |-> id, out |-> out]

\* The response of a request that went through isAuthed in an earlier step.
LateReply(proc, caller, code, msg, id, out) ==
    [proc |-> proc, caller |-> caller, blacklisted |-> FALSE,
     code |-> code, msg |-> msg, id |-> id, out |-> out]

\* ------------------------------------------------------------- middleware
IsAuthedNoBlacklist(c) ==
    IF c = Anonymous THEN "UNAUTHORIZED" ELSE "OK"

\* isAuthed: no session -> UNAUTHORIZED; blacklisted -> FORBIDDEN; else next().
isAuthed(c) ==
    IF c = Anonymous THEN "UNAUTHORIZED"
    ELSE IF c \in blacklisted THEN "FORBIDDEN"
    ELSE "OK"

\* ------------------------------------------------------------ store access
Rows == {gameplay[i] : i \in 1..Len(gameplay)}

RowsById(gid) == {r \in Rows : r.id = gid}

RowsByUrl(url) == {r \in Rows : r.youtubeUrl = url}

RECURSIVE SeqWithout(_, _)
SeqWithout(s, gid) ==
    IF s = <<>> THEN <<>>
    ELSE IF Head(s).id = gid THEN SeqWithout(Tail(s), gid)
    ELSE <<Head(s)>> \o SeqWithout(Tail(s), gid)

\* --------------------------------------------------------------------- get
Get(c, gid) ==
    /\ app = "web"
    /\ resp = NoResp
    /\ resp' =
         IF isAuthed(c) # "OK" THEN Reply("get", c, isAuthed(c), "", gid, <<>>)
         ELSE IF \/ RowsById(gid) = {}
                 \/ \E r \in RowsById(gid) :
                       ~hasPerms(c, Role(c), r.userId, "isOwner", c \in blacklisted)
              THEN Reply("get", c, "NOT_FOUND", "", gid, <<>>)
              ELSE Reply("get", c, "OK", "", gid, <<CHOOSE r \in RowsById(gid) : TRUE>>)
    /\ UNCHANGED <<app, webVars, backendVars, clips, files>>

\* ----------------------------------------------------------------- getMany
TakeValue == 10

SkipValueNextPage(page) == page * 10

\* const skipValue = input.page * 10 - 10
SkipValue(page) == page * 10 - 10

NullFilter == "null"

\* The rows the where clause keeps, in store order.
Filtered(rows, filterGames) ==
    IF filterGames = NullFilter THEN rows
    ELSE SelectSeq(rows, LAMBDA r : r.gameplayType = filterGames)

\* findMany({ take, skip }) over a sequence of rows.
TakeSkip(rows, take, skip) ==
    SubSeq(rows, skip + 1, IF skip + take < Len(rows) THEN skip + take ELSE Len(rows))

\* A negative skip is rejected by the Prisma client; the handler's catch turns
\* that into NOT_FOUND.
GetManyReply(c, page, filterGames) ==
    IF isAuthed(c) # "OK" THEN Reply("getMany", c, isAuthed(c), "", page, <<>>)
    ELSE IF SkipValue(page) < 0
         THEN Reply("getMany", c, "NOT_FOUND", "", page, <<>>)
         ELSE Reply("getMany", c, "OK", filterGames, page,
                    TakeSkip(Filtered(gameplay, filterGames), TakeValue, SkipValue(page)))

GetMany(c, page, filterGames) ==
    /\ app = "web"
    /\ resp = NoResp
    /\ resp' = GetManyReply(c, page, filterGames)
    /\ UNCHANGED <<app, webVars, backendVars, clips, files>>

\* ------------------------------------------------------------------ create
NoFormat == 0

DefaultFormatPrefers298(formats) ==
    IF 298 \in formats THEN 298 ELSE IF 299 \in formats THEN 299 ELSE NoFormat

\* formats.find(itag === 299) ?? formats.find(itag === 298)
DefaultFormat(formats) ==
    IF 299 \in formats THEN 299 ELSE IF 298 \in formats THEN 298 ELSE NoFormat

\* formats.find(itag === 136) ? 136 : undefined
LowFormat(formats) == IF 136 \in formats THEN 136 ELSE NoFormat

\* !defaultFormat && !lowFormat
Unacceptable(formats) ==
    DefaultFormat(formats) = NoFormat /\ LowFormat(formats) = NoFormat

\* videoFormat: defaultFormat ? defaultFormat.itag : lowFormat
VideoFormat(formats) ==
    IF DefaultFormat(formats) # NoFormat THEN DefaultFormat(formats)
    ELSE LowFormat(formats)

ExistingGameplayNever(url) == {}

\* findUnique({ where: { youtubeUrl } }): the row with that URL, if any.
ExistingGameplay(url) == RowsByUrl(url)

Request(c, url, type) == [userId |-> c, youtubeUrl |-> url, gameplayType |-> type]

\* The handler up to its first continuation: the middleware, the existence
\* check and the call of ytdl.getInfo.
CreateStart(c, url, type) ==
    /\ app = "web"
    /\ resp = NoResp
    /\ IF isAuthed(c) # "OK"
       THEN /\ resp' = Reply("create", c, isAuthed(c), "", url, <<>>)
            /\ UNCHANGED pending
       ELSE IF ExistingGameplay(url) # {}
            THEN /\ resp' = Reply("create", c, "BAD_REQUEST", "duplicate", url, <<>>)
                 /\ UNCHANGED pending
            ELSE /\ BagCardinality(pending) < MaxPending
                 /\ Len(files) + BagCardinality(pending) < MaxFiles
                 /\ pending' = pending (+) SetToBag({Request(c, url, type)})
                 /\ UNCHANGED resp
    /\ UNCHANGED <<app, gameplay, nextId, votes, blacklisted, backendVars, clips, files>>

\* ytdl.getInfo rejects (the host refuses the URL); nothing in the handler
\* catches it, so tRPC answers INTERNAL_SERVER_ERROR.
CreateGetInfoFails(req) ==
    /\ app = "web"
    /\ resp = NoResp
    /\ BagIn(req, pending)
    /\ pending' = pending (-) SetToBag({req})
    /\ resp' = LateReply("create", req.userId, "INTERNAL_SERVER_ERROR", "getInfo",
                     req.youtubeUrl, <<>>)
    /\ UNCHANGED <<app, gameplay, nextId, votes, blacklisted, backendVars, clips, files>>

NewRow(req, formats) ==
    [id |-> nextId, userId |-> req.userId, youtubeUrl |-> req.youtubeUrl,
     gameplayType |-> req.gameplayType, isAnalyzed |-> FALSE,
     videoFormat |-> VideoFormat(formats)]

UniqueViolationNever(url) == FALSE

\* youtubeUrl is a unique column of the gameplay table (findUnique takes it as
\* its where), so the store refuses a second row with the same URL.
UniqueViolation(url) == RowsByUrl(url) # {}

\* ytdl.getInfo has answered with `formats`: the download is started and piped
\* into a new local file, parseClips is called on that file at once, then the
\* format check and prisma.gameplay.create.
CreateResolve(req, formats) ==
    /\ app = "web"
    /\ resp = NoResp
    /\ BagIn(req, pending)
    /\ pending' = pending (-) SetToBag({req})
    /\ files' = Append(files, [written |-> FALSE, extractor |-> "early"])
    /\ IF Unacceptable(formats)
       THEN /\ resp' = LateReply("create", req.userId, "BAD_REQUEST", "unacceptable",
                             req.youtubeUrl, <<>>)
            /\ UNCHANGED <<gameplay, nextId>>
       ELSE IF UniqueViolation(req.youtubeUrl)
            THEN /\ resp' = LateReply("create", req.userId, "INTERNAL_SERVER_ERROR",
                                  "unique", req.youtubeUrl, <<>>)
                 /\ UNCHANGED <<gameplay, nextId>>
            ELSE /\ nextId <= MaxIds
                 /\ gameplay' = Append(gameplay, NewRow(req, formats))
                 /\ nextId' = nextId + 1
                 /\ resp' = LateReply("create", req.userId, "OK", "", req.youtubeUrl,
                                  <<NewRow(req, formats)>>)
    /\ UNCHANGED <<app, votes, blacklisted, backendVars, clips>>

\* The write stream of a local file finishes.
FileFinish(i) ==
    /\ i \in 1..Len(files)
    /\ ~files[i].written
    /\ files' = [files EXCEPT ![i].written = TRUE]
    /\ UNCHANGED <<app, webVars, backendVars, clips, resp>>

\* ---------------------------------------------------------------- getUsers
NullId == -1

UndefinedId == -2

\* const userId = input.userId === null ? ctx.session.user.id : input.userId
EffectiveUserId(c, inputUserId) == IF inputUserId = NullId THEN c ELSE inputUserId

OwnedBy(rows, userId) == SelectSeq(rows, LAMBDA r : r.userId = userId)

\* user.findUnique with an undefined id is rejected by the Prisma client and
\* nothing catches it; an id without a user row gives null.
GetUsersReply(c, inputUserId) ==
    LET userId == EffectiveUserId(c, inputUserId) IN
    IF isAuthed(c) # "OK" THEN Reply("getUsers", c, isAuthed(c), "", inputUserId, <<>>)
    ELSE IF ~hasPerms(c, Role(c), userId, "isOwner", c \in blacklisted)
         THEN Reply("getUsers", c, "UNAUTHORIZED", "", inputUserId, <<>>)
         ELSE IF userId = UndefinedId
              THEN Reply("getUsers", c, "INTERNAL_SERVER_ERROR", "validation",
                         inputUserId, <<>>)
              ELSE IF userId \notin Users
                   THEN Reply("getUsers", c, "NOT_FOUND", "", inputUserId, <<>>)
                   ELSE Reply("getUsers", c, "OK", "", inputUserId,
                              OwnedBy(gameplay, userId))

GetUsers(c, inputUserId) ==
    /\ app = "web"
    /\ resp = NoResp
    /\ resp' = GetUsersReply(c, inputUserId)
    /\ UNCHANGED <<app, webVars, backendVars, clips, files>>

\* ---------------------------------------------------------------- getClips
ClipsOf(gid) == {k \in clips : k.footage = gid}

GetClips(c, gid) ==
    /\ app = "web"
    /\ resp = NoResp
    /\ resp' =
         IF isAuthed(c) # "OK" THEN Reply("getClips", c, isAuthed(c), "", gid, <<>>)
         ELSE IF RowsById(gid) = {}
              THEN Reply("getClips", c, "NOT_FOUND", "", gid, <<>>)
              ELSE IF \E r \in RowsById(gid) :
                         ~hasPerms(c, Role(c), r.userId, "roleMod", c \in blacklisted)
                   THEN Reply("getClips", c, "UNAUTHORIZED", "", gid, <<>>)
                   ELSE Reply("getClips", c, "OK", "", gid, <<ClipsOf(gid)>>)
    /\ UNCHANGED <<app, webVars, backendVars, clips, files>>

\* ------------------------------------------------------------------ update
\* gameplay.isAnalyzed === input.isAnalyzed ? Perms.isOwner : Perms.roleMod
RequiredPerms(row, isAnalyzed) ==
    IF row.isAnalyzed = isAnalyzed THEN "isOwner" ELSE "roleMod"

Updated(rows, gid, type, isAnalyzed) ==
    [i \in 1..Len(rows) |->
        IF rows[i].id = gid
        THEN [rows[i] EXCEPT !.isAnalyzed = isAnalyzed, !.gameplayType = type]
        ELSE rows[i]]

\* Everything thrown inside the try, the UNAUTHORIZED TRPCError included, is
\* caught and thrown again as INTERNAL_SERVER_ERROR (the original as cause).
Update(c, gid, type, isAnalyzed) ==
    /\ app = "web"
    /\ resp = NoResp
    /\ IF isAuthed(c) # "OK"
       THEN /\ resp' = Reply("update", c, isAuthed(c), "", gid, <<>>)
            /\ UNCHANGED gameplay
       ELSE IF RowsById(gid) = {}
            THEN /\ resp' = Reply("update", c, "INTERNAL_SERVER_ERROR",
                                  "RecordNotFound", gid, <<>>)
                 /\ UNCHANGED gameplay
            ELSE LET row == CHOOSE r \in RowsById(gid) : TRUE IN
                 IF ~hasPerms(c, Role(c), row.userId, RequiredPerms(row, isAnalyzed),
                              c \in blacklisted)
                 THEN /\ resp' = Reply("update", c, "INTERNAL_SERVER_ERROR",
                                       "UNAUTHORIZED", gid, <<>>)
                      /\ UNCHANGED gameplay
                 ELSE /\ gameplay' = Updated(gameplay, gid, type, isAnalyzed)
                      /\ resp' = Reply("update", c, "OK", "", gid,
                                       <<[row EXCEPT !.isAnalyzed = isAnalyzed,
                                                     !.gameplayType = type]>>)
    /\ UNCHANGED <<app, nextId, votes, blacklisted, pending, backendVars, clips, files>>

\* ------------------------------------------------------------------ delete
\* prisma.gameplay.delete removes the gameplay row; the handler issues no
\* delete of the row's votes or clips.
Delete(c, gid) ==
    /\ app = "web"
    /\ resp = NoResp
    /\ IF isAuthed(c) # "OK"
       THEN /\ resp' = Reply("delete", c, isAuthed(c), "", gid, <<>>)
            /\ UNCHANGED gameplay
       ELSE IF RowsById(gid) = {}
            THEN /\ resp' = Reply("delete", c, "INTERNAL_SERVER_ERROR",
                                  "RecordNotFound", gid, <<>>)
                 /\ UNCHANGED gameplay
            ELSE IF \E r \in RowsById(gid) :
                       ~hasPerms(c, Role(c), r.userId, "isOwner", c \in blacklisted)
                 THEN /\ resp' = Reply("delete", c, "INTERNAL_SERVER_ERROR",
                                       "UNAUTHORIZED", gid, <<>>)
                      /\ UNCHANGED gameplay
                 ELSE /\ gameplay' = SeqWithout(gameplay, gid)
                      /\ resp' = Reply("delete", c, "OK", "", gid, <<>>)
    /\ UNCHANGED <<app, nextId, votes, blacklisted, pending, backendVars, clips, files>>

\* ---------------------------------------------------------- getReviewItems
VotedBy(c, gid) == \E v \in BagToSet(votes) : v.userId = c /\ v.gameplayId = gid

ReviewCandidatesAll(c) == Rows

\* where: { gameplayVotes: { none: { userId: ctx.session.user.id } } }
ReviewCandidates(c) == {r \in Rows : ~VotedBy(c, r.id)}

OrderKeys == {"userId", "id", "youtubeUrl"}

OrderDirs == {"desc", "asc"}

KeyOf(r, orderBy) ==
    CASE orderBy = "userId" -> r.userId
      [] orderBy = "id" -> r.id
      [] OTHER -> r.youtubeUrl

Before(a, b, orderBy, orderDir) ==
    IF orderDir = "asc" THEN KeyOf(a, orderBy) < KeyOf(b, orderBy)
    ELSE KeyOf(a, orderBy) > KeyOf(b, orderBy)

\* r can stand at offset skip of rows ordered by orderBy/orderDir (rows with
\* equal keys stand in any order).
CanBeAt(r, skip, rows, orderBy, orderDir) ==
    LET before == {x \in rows : Before(x, r, orderBy, orderDir)}
        notAfter == {x \in rows : ~Before(r, x, orderBy, orderDir)}
    IN Cardinality(before) <= skip /\ skip < Cardinality(notAfter)

\* Math.floor(Math.random() * itemCount)
SkipChoices(itemCount) == IF itemCount = 0 THEN {0} ELSE 0..(itemCount - 1)

GetReviewItems(c) ==
    /\ app = "web"
    /\ resp = NoResp
    /\ IF isAuthed(c) # "OK"
       THEN resp' = Reply("getReviewItems", c, isAuthed(c), "", 0, <<>>)
       ELSE \E skip \in SkipChoices(Len(gameplay)), orderBy \in OrderKeys,
               orderDir \in OrderDirs :
               IF skip >= Cardinality(ReviewCandidates(c))
               THEN resp' = Reply("getReviewItems", c, "NOT_FOUND", "", skip, <<>>)
               ELSE \E r \in ReviewCandidates(c) :
                       /\ CanBeAt(r, skip, ReviewCandidates(c), orderBy, orderDir)
                       /\ resp' = Reply("getReviewItems", c, "OK", "", skip, <<r>>)
    /\ UNCHANGED <<app, webVars, backendVars, clips, files>>

\* ------------------------------------------------------------------ review
Vote(c, gid, isGame, actualGame) ==
    [userId |-> c, gameplayId |-> gid, isGame |-> isGame, actualGame |-> actualGame]

\* gameplayVotes.create is called without looking for a vote of the caller on
\* that gameplay.
Review(c, gid, isGame, actualGame) ==
    /\ app = "web"
    /\ resp = NoResp
    /\ IF isAuthed(c) # "OK"
       THEN /\ resp' = Reply("review", c, isAuthed(c), "", gid, <<>>)
            /\ UNCHANGED votes
       ELSE /\ BagCardinality(votes) < MaxVotes
            /\ votes' = votes (+) SetToBag({Vote(c, gid, isGame, actualGame)})
            /\ resp' = Reply("review", c, "OK", "", gid, <<>>)
    /\ UNCHANGED <<app, gameplay, nextId, blacklisted, pending, backendVars, clips, files>>

\* ------------------------------------------------------------- environment
\* The user row's blacklisted column changes; the session callback copies it
\* into the session of every later request.
SetBlacklisted(u, flag) ==
    /\ app = "web"
    /\ resp = NoResp
    /\ blacklisted' = IF flag THEN blacklisted \cup {u} ELSE blacklisted \ {u}
    /\ blacklisted' # blacklisted
    /\ Cardinality(blacklisted') <= MaxBlacklisted
    /\ UNCHANGED <<app, gameplay, nextId, votes, pending, backendVars, clips, files, resp>>

Respond ==
    /\ resp # NoResp
    /\ resp' = NoResp
    /\ UNCHANGED <<app, webVars, backendVars, clips, files>>

\* ------------------------------------------------- backend: createFootage
Uuids == {1, 2}

DocsByUrl(url) == {d \in footage : d.youtubeUrl = url}

DocsByUuid(uuid) == {d \in footage : d.uuid = uuid}

BackendReply(proc, code, id) ==
    [proc |-> proc, caller |-> 0, blacklisted |-> FALSE, code |-> code,
     msg |-> "", id |-> id, out |-> <<>>]


\* Footage.findOne({ youtubeUrl: url })
ExistingFootage(url) == DocsByUrl(url)

\* The handler up to the call of ytdl.getInfo.
CreateFootageStart(url) ==
    /\ app = "backend"
    /\ resp = NoResp
    /\ IF ExistingFootage(url) # {}
       THEN /\ resp' = BackendReply("createFootage", "400", url)
            /\ UNCHANGED bpending
       ELSE /\ Len(files) + BagCardinality(bpending) < MaxFiles
            /\ bpending' = bpending (+) SetToBag({[youtubeUrl |-> url, file |-> 0]})
            /\ UNCHANGED resp
    /\ UNCHANGED <<app, webVars, footage, clips, files>>

\* ytdl.getInfo rejects: the catch answers 406.
CreateFootageGetInfoFails(req) ==
    /\ app = "backend"
    /\ resp = NoResp
    /\ BagIn(req, bpending)
    /\ req.file = 0
    /\ bpending' = bpending (-) SetToBag({req})
    /\ resp' = BackendReply("createFootage", "406", req.youtubeUrl)
    /\ UNCHANGED <<app, webVars, footage, clips, files>>

\* ytdl.getInfo answers: the write stream is created and the download piped
\* into it; the handler waits for the stream's finish event.
CreateFootageDownload(req) ==
    /\ app = "backend"
    /\ resp = NoResp
    /\ BagIn(req, bpending)
    /\ req.file = 0
    /\ files' = Append(files, [written |-> FALSE, extractor |-> "none"])
    /\ bpending' = (bpending (-) SetToBag({req}))
                      (+) SetToBag({[req EXCEPT !.file = Len(files) + 1]})
    /\ UNCHANGED <<app, webVars, footage, clips, resp>>

\* The finish event: python3 autoClip.py is spawned on the file with stdio
\* 'inherit', so python.stdout is null and python.stdout.on throws; the close
\* listener that would call Footage.create is never attached, and the catch
\* answers 406.
CreateFootageFinish(req) ==
    /\ app = "backend"
    /\ resp = NoResp
    /\ BagIn(req, bpending)
    /\ req.file # 0
    /\ files' = [files EXCEPT ![req.file] = [written |-> TRUE, extractor |-> "late"]]
    /\ bpending' = bpending (-) SetToBag({req})
    /\ resp' = BackendReply("createFootage", "406", req.youtubeUrl)
    /\ UNCHANGED <<app, webVars, footage, clips>>

\* ------------------------------------------------- backend: updateFootage
\* The 412 error is thrown inside the try; it is an Error, so the catch
\* answers 418 with its message.
UpdateFootage(uuid, isAnalyzed, isCsgoFootage) ==
    /\ app = "backend"
    /\ resp = NoResp
    /\ IF DocsByUuid(uuid) = {}
       THEN /\ resp' = BackendReply("updateFootage", "418", uuid)
            /\ UNCHANGED footage
       ELSE /\ footage' = {IF d.uuid = uuid
                           THEN [d EXCEPT !.isAnalyzed = isAnalyzed,
                                          !.isCsgoFootage = isCsgoFootage]
                           ELSE d : d \in footage}
            /\ resp' = BackendReply("updateFootage", "200", uuid)
    /\ UNCHANGED <<app, webVars, bpending, clips, files>>

\* ------------------------------------------------- backend: deleteFootage
\* Footage.deleteOne({ uuid }); deletedCount === 0 -> 404.  No Clip document
\* is touched.
DeleteFootage(uuid) ==
    /\ app = "backend"
    /\ resp = NoResp
    /\ IF DocsByUuid(uuid) = {}
       THEN /\ resp' = BackendReply("deleteFootage", "404", uuid)
            /\ UNCHANGED footage
       ELSE /\ footage' = footage \ DocsByUuid(uuid)
            /\ resp' = BackendReply("deleteFootage", "200", uuid)
    /\ UNCHANGED <<app, webVars, bpending, clips, files>>

\* ----------------------------------------------- backend: getFootageClips
\* Clip.find({ footage: uuid }); none -> 404.
GetFootageClips(uuid) ==
    /\ app = "backend"
    /\ resp = NoResp
    /\ resp' = IF ClipsOf(uuid) = {}
               THEN BackendReply("getFootageClips", "404", uuid)
               ELSE [BackendReply("getFootageClips", "200", uuid)
                        EXCEPT !.out = <<ClipsOf(uuid)>>]
    /\ UNCHANGED <<app, webVars, backendVars, clips, files>>

\* ------------------------------------------------------------ specification
SomeTypes == {"VAL", "CSG"}

Itags == {299, 298, 136, 18}

Callers == Users \cup {Anonymous}

InitWeb ==
    /\ app = "web"
    /\ gameplay = <<>>
    /\ nextId = 1
    /\ votes = EmptyBag
    /\ blacklisted = {}
    /\ pending = EmptyBag
    /\ footage = {}
    /\ bpending = EmptyBag
    /\ clips = {}
    /\ files = <<>>
    /\ resp = NoResp

Doc(uuid) ==
    [uuid |-> uuid, discordId |-> uuid, youtubeUrl |-> uuid,
     isCsgoFootage |-> FALSE, isAnalyzed |-> FALSE]

\* The backend's database as the service finds it: some Footage documents
\* with distinct uuids and URLs, and clips of some of them.
InitBackend ==
    /\ app = "backend"
    /\ gameplay = <<>>
    /\ nextId = 1
    /\ votes = EmptyBag
    /\ blacklisted = {}
    /\ pending = EmptyBag
    /\ \E S \in SUBSET Uuids :
          /\ footage = {Doc(u) : u \in S}
          /\ \E K \in SUBSET S : clips = {[id |-> u, footage |-> u] : u \in K}
    /\ bpending = EmptyBag
    /\ files = <<>>
    /\ resp = NoResp

\* The create pipeline of the web router.
NextCreate(types, formatSets) ==
    \/ \E c \in Callers, url \in Urls, type \in types : CreateStart(c, url, type)
    \/ \E req \in BagToSet(pending) : CreateGetInfoFails(req)
    \/ \E req \in BagToSet(pending), formats \in formatSets : CreateResolve(req, formats)

NextBackendCreate ==
    \/ \E url \in Urls \cup {3} : CreateFootageStart(url)
    \/ \E req \in BagToSet(bpending) : CreateFootageGetInfoFails(req)
    \/ \E req \in BagToSet(bpending) : CreateFootageDownload(req)
    \/ \E req \in BagToSet(bpending) : CreateFootageFinish(req)

NextBackend ==
    \/ NextBackendCreate
    \/ \E uuid \in Uuids \cup {3}, a \in BOOLEAN, g \in BOOLEAN : UpdateFootage(uuid, a, g)
    \/ \E uuid \in Uuids \cup {3} : DeleteFootage(uuid)
    \/ \E uuid \in Uuids \cup {3} : GetFootageClips(uuid)
    \/ Respond

\* The gameplay router.
Next ==
    \/ \E c \in Callers, gid \in 1..MaxIds : Get(c, gid)
    \/ \E c \in Callers, f \in {NullFilter} : GetMany(c, 1, f)
    \/ NextCreate({"VAL"}, {{299, 18}, {18}})
    \/ \E c \in Callers, u \in {1, GhostUser, NullId, UndefinedId} : GetUsers(c, u)
    \/ \E c \in Callers, gid \in 1..MaxIds : GetClips(c, gid)
    \/ \E c \in Callers, gid \in 1..MaxIds, a \in BOOLEAN : Update(c, gid, "VAL", a)
    \/ \E c \in Callers, gid \in 1..MaxIds : Delete(c, gid)
    \/ \E c \in Callers : GetReviewItems(c)
    \/ \E c \in Callers, r \in Rows : Review(c, r.id, TRUE, "VAL")
    \/ \E u \in Users, flag \in BOOLEAN : SetBlacklisted(u, flag)
    \/ Respond

Spec == InitWeb /\ [][Next]_vars

\* Ingestion in both applications, with every set of encodings the host can
\* offer and the local files' writes finishing.
NextIngest ==
    \/ NextCreate(SomeTypes, SUBSET Itags)
    \/ \E i \in 1..Len(files) : app = "web" /\ FileFinish(i)
    \/ \E c \in Users, gid \in 1..MaxIds : Delete(c, gid)
    \/ NextBackendCreate
    \/ \E uuid \in Uuids : DeleteFootage(uuid)
    \/ Respond

SpecIngest == (InitWeb \/ InitBackend) /\ [][NextIngest]_vars

SpecBackend == InitBackend /\ [][NextBackend]_vars

\* ------------------------------------------------------------ pagination
\* Rows a listing is tried on.
MaxRecords == 12

PageRow(i, type) ==
    [id |-> i, userId |-> 1, youtubeUrl |-> i, gameplayType |-> type,
     isAnalyzed |-> FALSE, videoFormat |-> 299]

\* getMany over every gameplay table of up to MaxRecords rows of two types.
InitPage ==
    /\ app = "web"
    /\ \E n \in 0..MaxRecords : \E f \in [1..n -> SomeTypes] :
          gameplay = [i \in 1..n |-> PageRow(i, f[i])]
    /\ nextId = Len(gameplay) + 1
    /\ votes = EmptyBag
    /\ blacklisted = {}
    /\ pending = EmptyBag
    /\ footage = {}
    /\ bpending = EmptyBag
    /\ clips = {}
    /\ files = <<>>
    /\ resp = NoResp

NextPage ==
    \/ \E page \in 0..3, f \in SomeTypes \cup {NullFilter} : GetMany(1, page, f)
    \/ Respond

SpecPage == InitPage /\ [][NextPage]_vars

\* ================================================================= claims

\* C1: a create request for a URL that a stored record already has fails with
\* the duplicate-submission error (BAD_REQUEST in the router, 400 in the
\* backend), and that request starts no download, invokes no extractor and
\* adds no record.  The router's callers are those the middleware lets through.
C1_DuplicateRejected ==
    [][ /\ \A c \in Users, url \in Urls, type \in SomeTypes :
              (CreateStart(c, url, type) /\ c \notin blacklisted /\ RowsByUrl(url) # {})
              => /\ resp'.code = "BAD_REQUEST"
                 /\ resp'.msg = "duplicate"
                 /\ UNCHANGED <<gameplay, nextId, pending, files, clips>>
        /\ \A url \in Urls \cup {3} :
              (CreateFootageStart(url) /\ DocsByUrl(url) # {})
              => /\ resp'.code = "400"
                 /\ UNCHANGED <<footage, bpending, files, clips>>
      ]_vars

\* A duplicate submission has been rejected while the URL's row is stored.
C1_Witness ==
    /\ resp.proc = "create"
    /\ resp.code = "BAD_REQUEST"
    /\ resp.msg = "duplicate"
    /\ RowsByUrl(resp.id) # {}
    /\ files # <<>>

\* C2: in every reachable state, whatever the interleaving of create requests,
\* no two gameplay rows and no two Footage documents have the same URL.
C2_UrlUnique ==
    /\ \A i, j \in 1..Len(gameplay) :
          i # j => gameplay[i].youtubeUrl # gameplay[j].youtubeUrl
    /\ \A d, e \in footage : d # e => d.youtubeUrl # e.youtubeUrl

\* Two requests for one URL both passed the existence check; the second write
\* was refused by the store.
C2_Witness ==
    /\ resp.proc = "create"
    /\ resp.msg = "unique"
    /\ RowsByUrl(resp.id) # {}

\* C3: a request of a caller whose session says blacklisted is denied by every
\* procedure of the router with the FORBIDDEN authorization error, and changes
\* nothing in the store.
C3_BlacklistedDenied ==
    [][ (resp' # NoResp /\ resp'.blacklisted)
        => /\ resp'.code = "FORBIDDEN"
           /\ UNCHANGED <<gameplay, nextId, votes, pending, files, clips>>
      ]_vars

\* A blacklisted moderator who owns a row is refused its deletion.
C3_Witness ==
    /\ resp.proc = "delete"
    /\ resp.blacklisted
    /\ resp.code = "FORBIDDEN"
    /\ Role(resp.caller) = "MOD"
    /\ \E r \in RowsById(resp.id) : r.userId = resp.caller

\* C4: an update of a stored row whose isAnalyzed input differs from the
\* stored value, by a caller who is not blacklisted, succeeds exactly when the
\* caller is a moderator or above, and the row then has the new value; below
\* moderator it fails with the UNAUTHORIZED error and the row is unchanged.
C4_AnalyzedNeedsMod ==
    [][ \A c \in Users, gid \in 1..MaxIds, type \in SomeTypes, a \in BOOLEAN :
           ( /\ Update(c, gid, type, a)
             /\ c \notin blacklisted
             /\ \E r \in RowsById(gid) : r.isAnalyzed # a )
           => IF RoleLevel(Role(c)) >= 1
              THEN /\ resp'.code = "OK"
                   /\ \E i \in 1..Len(gameplay') :
                         gameplay'[i].id = gid /\ gameplay'[i].isAnalyzed = a
              ELSE /\ resp'.code = "UNAUTHORIZED"
                   /\ UNCHANGED gameplay
      ]_vars

\* C5: a delete of an id that no stored record has fails with the NotFound
\* error (NOT_FOUND in the router, 404 in the backend) and changes nothing.
C5_DeleteMissingNotFound ==
    [][ /\ \A c \in Users, gid \in 1..MaxIds :
              (Delete(c, gid) /\ c \notin blacklisted /\ RowsById(gid) = {})
              => /\ resp'.code = "NOT_FOUND"
                 /\ UNCHANGED <<gameplay, nextId, votes, pending, files, clips>>
        /\ \A uuid \in Uuids \cup {3} :
              (DeleteFootage(uuid) /\ DocsByUuid(uuid) = {})
              => /\ resp'.code = "404"
                 /\ UNCHANGED <<footage, bpending, files, clips>>
      ]_vars

\* C6: in every reachable state every clip and every vote references a
\* footage/gameplay record that exists (none is left behind by a delete).
C6_NoOrphans ==
    /\ app = "backend" => \A k \in clips : DocsByUuid(k.footage) # {}
    /\ app = "web" =>
          /\ \A k \in clips : RowsById(k.footage) # {}
          /\ \A v \in BagToSet(votes) : RowsById(v.gameplayId) # {}

\* C7: in every reachable state the store holds at most one vote for each
\* (voting user, gameplay) pair.
C7_OneVotePerPair ==
    \A u \in Users, gid \in 1..MaxIds :
       BagCardinality([v \in {w \in BagToSet(votes) :
                                 w.userId = u /\ w.gameplayId = gid}
                         |-> votes[v]]) <= 1

\* C8: for a caller the middleware lets through, getReviewItems either returns
\* a stored row that has no vote of the caller or fails with NOT_FOUND, and it
\* fails with NOT_FOUND whenever every stored row has a vote of the caller (an
\* empty store included).
C8_ReviewItemUnvoted ==
    (resp.proc = "getReviewItems" /\ resp.code \notin {"UNAUTHORIZED", "FORBIDDEN"})
    => /\ \/ resp.code = "NOT_FOUND"
          \/ /\ resp.code = "OK"
             /\ Len(resp.out) = 1
             /\ resp.out[1] \in Rows
             /\ ~\E v \in BagToSet(votes) :
                    v.userId = resp.caller /\ v.gameplayId = resp.out[1].id
       /\ (\A r \in Rows : \E v \in BagToSet(votes) :
              v.userId = resp.caller /\ v.gameplayId = r.id)
          => resp.code = "NOT_FOUND"

\* getReviewItems returned a row to a caller who has voted on another row.
C8_Witness ==
    /\ resp.proc = "getReviewItems"
    /\ resp.code = "OK"
    /\ \E r \in Rows : VotedBy(resp.caller, r.id)


\* C9: for a page number p >= 1 getMany returns at most 10 rows, exactly the
\* rows at offsets [10*(p-1), 10*p) of the (optionally category-filtered)
\* table; with a category filter every returned row has that category.
C9_PageWindow ==
    (resp.proc = "getMany" /\ resp.id >= 1 /\ resp.code \notin {"UNAUTHORIZED", "FORBIDDEN"})
    => LET p == resp.id
           filterGames == resp.msg
           F == Filtered(gameplay, filterGames)
           rest == Len(F) - 10 * (p - 1)
           n == IF rest < 0 THEN 0 ELSE IF rest > 10 THEN 10 ELSE rest
       IN /\ resp.code = "OK"
          /\ Len(resp.out) <= 10
          /\ Len(resp.out) = n
          /\ \A i \in 1..Len(resp.out) : resp.out[i] = F[10 * (p - 1) + i]
          /\ filterGames # NullFilter
                => \A i \in 1..Len(resp.out) : resp.out[i].gameplayType = filterGames

\* Page 2 of a filtered listing holds the 11th matching row.
C9_Witness ==
    /\ resp.proc = "getMany"
    /\ resp.id = 2
    /\ resp.msg = "VAL"
    /\ Len(resp.out) >= 1
    /\ \E i \in 1..Len(gameplay) : gameplay[i].gameplayType = "CSG"

\* C10: the encoding create stores is a function of the set of encodings the
\* host offers: 299 if offered, else 298 if offered, else 136 if offered; when
\* none of the three is offered the request fails with BAD_REQUEST
\* (unacceptable) and no row is stored.
C10_EncodingSelection ==
    [][ \A req \in BagToSet(pending), formats \in SUBSET Itags :
           CreateResolve(req, formats)
           => LET want == IF 299 \in formats THEN 299
                          ELSE IF 298 \in formats THEN 298
                          ELSE IF 136 \in formats THEN 136 ELSE 0
              IN IF want = 0
                 THEN /\ resp'.code = "BAD_REQUEST"
                      /\ resp'.msg = "unacceptable"
                      /\ UNCHANGED gameplay
                 ELSE \/ /\ resp'.code = "OK"
                         /\ Len(gameplay') = Len(gameplay) + 1
                         /\ gameplay'[Len(gameplay')].videoFormat = want
                         /\ gameplay'[Len(gameplay')].youtubeUrl = req.youtubeUrl
                      \/ /\ resp'.msg = "unique"
                         /\ UNCHANGED gameplay
      ]_vars

\* The host offers 298 and 136 but not 299, and the row stored has 298.
C10_Witness ==
    /\ resp.proc = "create"
    /\ resp.code = "OK"
    /\ resp.out[1].videoFormat = 298
    /\ \E i \in 1..Len(gameplay) : gameplay[i].videoFormat = 136

\* C11: updateFootage called with a uuid that no Footage document has answers
\* 412 and changes no document.
C11_UpdateMissing412 ==
    [][ \A uuid \in Uuids \cup {3}, a \in BOOLEAN, g \in BOOLEAN :
           (UpdateFootage(uuid, a, g) /\ DocsByUuid(uuid) = {})
           => /\ resp'.code = "412"
              /\ UNCHANGED footage
      ]_vars

\* C12: getUsers with no userId given (the field null, or the field omitted)
\* by a caller who is not blacklisted and has a user row succeeds and returns
\* exactly the gameplay rows the caller owns.
C12_NoUserIdMeansSelf ==
    [][ \A c \in Users, u \in {NullId, UndefinedId} :
           (GetUsers(c, u) /\ c \notin blacklisted)
           => /\ resp'.code = "OK"
              /\ resp'.out = OwnedBy(gameplay, c)
      ]_vars

\* C13: a create request that fails with the unacceptable-format error has
\* written no local file and has invoked no extractor: the step that answers
\* it leaves the local files as they were.
C13_ResolveBeforeDownload ==
    [][ \A req \in BagToSet(pending), formats \in SUBSET Itags :
           (CreateResolve(req, formats) /\ Unacceptable(formats))
           => UNCHANGED files
      ]_vars

\* C14: the clip extractor is invoked on a local file only after the file's
\* write has finished: no file on which the extractor has been invoked is
\* still being written.
C14_ExtractorAfterFinish ==
    \A i \in 1..Len(files) : files[i].extractor # "none" => files[i].written

\* C15: getReviewItems by a caller the middleware admits, in a store where
\* some gameplay row has no vote by the caller, returns a row whatever the
\* random skip, sort key and direction are.
C15_NotFoundOnlyWhenNoneEligible ==
    [][ \A c \in Users :
           (GetReviewItems(c) /\ c \notin blacklisted /\ ReviewCandidates(c) # {})
           => resp'.code = "OK"
      ]_vars
====
